---------------------------- MODULE Spec2Model ----------------------------
(***************************************************************************)
(* Model of market_backtest: the metrics engine (metrics.rs), the loaders   *)
(* (data.rs) and main (main.rs).                                           *)
(*                                                                         *)
(* Numbers.  The program computes in f64.  The model computes exactly:     *)
(* a real is a reduced fraction <<n, d>> with d > 0, and a square root is  *)
(* a simplified surd <<c, r>> standing for c * sqrt(r), c a fraction and   *)
(* r a squarefree positive integer.  Inputs are drawn from small sets of   *)
(* finite values, so NaN and the infinities never arise in the metrics    *)
(* functions; rounding is not modelled.  ln is computed on ratios that are *)
(* powers of two and its value is kept in units of ln 2.                   *)
(*                                                                         *)
(* Option<T>: None is <<>>, Some(x) is <<x>>.                              *)
(***************************************************************************)
EXTENDS Integers, Sequences, FiniteSets, TLC

\* ------------------------------------------------------------------------
\* Bounds of the model
\* ------------------------------------------------------------------------
MaxCandles == 3
MaxLen == 3
MaxAlphaLen == 3
MaxSims == 2
MaxRows == 4
MaxRfRows == 2
MaxBenchRows == 3
MaxRecords == 3
MainSims == 1

\* ------------------------------------------------------------------------
\* Exact arithmetic standing for f64
\* ------------------------------------------------------------------------
Abs(x) == IF x < 0 THEN -x ELSE x

RECURSIVE Gcd(_, _)
Gcd(a, b) == IF b = 0 THEN a ELSE Gcd(b, a % b)

\* The fraction n/d in lowest terms with a positive denominator (d # 0).
Rat(n, d) ==
    LET g == Gcd(Abs(n), Abs(d))
        s == IF d < 0 THEN -1 ELSE 1
    IN  <<(s * n) \div g, (s * d) \div g>>

FromInt(k) == <<k, 1>>
Zero == FromInt(0)

\* Sums and products reduce before they multiply, to keep the integers of
\* the fractions small.
RAdd(x, y) ==
    LET g == Gcd(x[2], y[2])
    IN  Rat(x[1] * (y[2] \div g) + y[1] * (x[2] \div g), (x[2] \div g) * y[2])
RNeg(x) == <<-x[1], x[2]>>
RSub(x, y) == RAdd(x, RNeg(y))
RMul(x, y) ==
    LET g1 == Gcd(Abs(x[1]), y[2])
        g2 == Gcd(Abs(y[1]), x[2])
    IN  Rat((x[1] \div g1) * (y[1] \div g2), (x[2] \div g2) * (y[2] \div g1))
\* x / y for y # 0 (every division of the metrics functions is guarded).
RDiv(x, y) == RMul(x, Rat(y[2], y[1]))
RPos(x) == x[1] > 0
RLess(x, y) == x[1] * y[2] < y[1] * x[2]

\* powi(x, 2)
Powi2(x) == RMul(x, x)

\* The integer square root of m >= 0: the largest k in lo..hi with k*k <= m.
RECURSIVE ISqrtIn(_, _, _)
ISqrtIn(m, lo, hi) ==
    IF lo >= hi THEN lo
    ELSE LET mid == (lo + hi + 1) \div 2
         IN  IF mid * mid <= m THEN ISqrtIn(m, mid, hi) ELSE ISqrtIn(m, lo, mid - 1)
ISqrt(m) == ISqrtIn(m, 0, IF m < 46340 THEN m ELSE 46340)

\* The largest k with k*k dividing m (m > 0).
SquarePart(m) ==
    LET ks == {k \in 1..ISqrt(m) : m % (k * k) = 0}
    IN  CHOOSE k \in ks : \A j \in ks : j <= k

\* sqrt of a fraction x >= 0 in lowest terms as a simplified surd
\* <<c, r>> = c * sqrt(r):  sqrt(n/d) = kn sqrt(rn) / (kd sqrt(rd))
\*                                    = (kn / (kd rd)) sqrt(rn rd)
\* with kn, kd the square parts of n, d and rn, rd what is left of them.
Sqrt(x) ==
    IF x[1] = 0 THEN <<Zero, 1>>
    ELSE LET kn == SquarePart(x[1])
             kd == SquarePart(x[2])
             rn == x[1] \div (kn * kn)
             rd == x[2] \div (kd * kd)
         IN  <<Rat(kn, kd * rd), rn * rd>>

\* a * b for surds: the radicands are squarefree, so the square part of
\* their product is the square of their gcd
SurdMul(a, b) ==
    IF a[1] = Zero \/ b[1] = Zero THEN <<Zero, 1>>
    ELSE LET g == Gcd(a[2], b[2])
         IN  <<RMul(RMul(a[1], b[1]), FromInt(g)), (a[2] \div g) * (b[2] \div g)>>

\* the square of a surd, a fraction
SurdSq(a) == RMul(Powi2(a[1]), FromInt(a[2]))

\* a > 0.0 for a surd
SurdPos(a) == RPos(a[1])

\* x / a for a fraction x and a surd a > 0:  x / (c sqrt r) = (x / (c r)) sqrt r
RDivSurd(x, a) ==
    IF x = Zero THEN <<Zero, 1>>
    ELSE <<RDiv(x, RMul(a[1], FromInt(a[2]))), a[2]>>

\* log2 of a power of two
RECURSIVE Log2(_)
Log2(n) == IF n <= 1 THEN 0 ELSE 1 + Log2(n \div 2)

\* 2^k for k >= 0
RECURSIVE Pow2(_)
Pow2(k) == IF k <= 0 THEN 1 ELSE 2 * Pow2(k - 1)

\* ln(x) for a fraction x = 2^a / 2^b, in units of ln 2
Ln(x) == FromInt(Log2(x[1]) - Log2(x[2]))

\* exp of a value in units of ln 2 (an integer number of units)
Exp(x) == IF x[1] >= 0 THEN Rat(Pow2(x[1]), 1) ELSE Rat(1, Pow2(-x[1]))

\* Option<T>
None == <<>>
Some(x) == <<x>>
IsSome(o) == Len(o) = 1
IsNone(o) == Len(o) = 0
Unwrap(o) == o[1]

\* iter().sum::<f64>()
\* The sum of xs[lo..hi], by halves (exact addition is associative).
RECURSIVE SumRange(_, _, _)
SumRange(xs, lo, hi) ==
    IF lo > hi THEN Zero
    ELSE IF lo = hi THEN xs[lo]
    ELSE LET mid == (lo + hi) \div 2
         IN  RAdd(SumRange(xs, lo, mid), SumRange(xs, mid + 1, hi))
Sum(xs) == SumRange(xs, 1, Len(xs))

\* ------------------------------------------------------------------------
\* metrics.rs
\* ------------------------------------------------------------------------
TRADING_DAYS_PER_YEAR == 252

\* Candle: only the close is read by the metrics.
Candle(c) == [close |-> FromInt(c)]

\* daily_returns_loop with the ratio taken the wrong way round
RECURSIVE daily_returns_loop_swapped(_, _, _)
daily_returns_loop_swapped(cs, i, rets) ==
    IF i > Len(cs) THEN rets
    ELSE daily_returns_loop_swapped(cs, i + 1,
            Append(rets, Ln(RDiv(cs[i - 1].close, cs[i].close))))

\* The loop of daily_returns from index i on, pushing onto returns.
RECURSIVE daily_returns_loop(_, _, _)
daily_returns_loop(cs, i, rets) ==
    IF i > Len(cs) THEN rets
    ELSE daily_returns_loop(cs, i + 1,
            Append(rets, Ln(RDiv(cs[i].close, cs[i - 1].close))))

\* i runs over 1..len-1 in the 0-based source, 2..Len in the 1-based model.
daily_returns(cs) ==
    IF Len(cs) < 2 THEN <<>>
    ELSE daily_returns_loop(cs, 2, <<>>)

\* statrs Statistics::mean: the arithmetic mean
Mean(xs) == RDiv(Sum(xs), FromInt(Len(xs)))

SqDevs(xs, m) == [i \in 1..Len(xs) |-> Powi2(RSub(xs[i], m))]

\* calc_stats with the divisor n in place of n-1
calc_stats_population(rets) ==
    LET count == Len(rets) IN
    IF count < 2 THEN None
    ELSE LET mean == Mean(rets)
             variance == RDiv(Sum(SqDevs(rets, mean)), FromInt(count))
             sd == Sqrt(variance)
         IN  Some(<<mean, sd>>)

calc_stats(rets) ==
    LET count == Len(rets) IN
    IF count < 2 THEN None
    ELSE LET mean == Mean(rets)
             variance == RDiv(Sum(SqDevs(rets, mean)), FromInt(count - 1))
             sd == Sqrt(variance)
         IN  Some(<<mean, sd>>)

\* Variance with the divisor n (statrs population_variance) in its place
Variance_population(xs) ==
    RDiv(Sum(SqDevs(xs, Mean(xs))), FromInt(Len(xs)))

\* statrs Statistics::variance: the unbiased sample variance (divisor n-1)
Variance(xs) ==
    RDiv(Sum(SqDevs(xs, Mean(xs))), FromInt(Len(xs) - 1))

\* statrs Statistics::covariance: the unbiased sample covariance (divisor
\* n-1) of two series of the same length
Covariance(xs, ys) ==
    LET mx == Mean(xs)
        my == Mean(ys)
        prods == [i \in 1..Len(xs) |-> RMul(RSub(xs[i], mx), RSub(ys[i], my))]
    IN  RDiv(Sum(prods), FromInt(Len(xs) - 1))

\* beta with the zero test on the covariance in place of the variance
beta_cov_test(asset_rets, market_rets) ==
    IF Len(asset_rets) # Len(market_rets) \/ Len(asset_rets) < 2 THEN None
    ELSE LET cov == Covariance(asset_rets, market_rets)
             var_market == Variance(market_rets)
         IN  IF cov = Zero THEN None
             ELSE Some(RDiv(cov, var_market))

beta(asset_rets, market_rets) ==
    IF Len(asset_rets) # Len(market_rets) \/ Len(asset_rets) < 2 THEN None
    ELSE LET cov == Covariance(asset_rets, market_rets)
             var_market == Variance(market_rets)
         IN  IF var_market = Zero THEN None
             ELSE Some(RDiv(cov, var_market))

\* a.iter().zip(b).map(|(x, y)| x - y): as long as the shorter of the two
Min(a, b) == IF a < b THEN a ELSE b
ZipSub(xs, ys) == [i \in 1..Min(Len(xs), Len(ys)) |-> RSub(xs[i], ys[i])]

\* alpha without the length test on the risk-free series
alpha_no_rf_test(asset_rets, market_rets, rf_rets) ==
    IF Len(asset_rets) # Len(market_rets)
    THEN None
    ELSE LET excess_asset == ZipSub(asset_rets, rf_rets)
             excess_market == ZipSub(market_rets, rf_rets)
             b == beta(excess_asset, excess_market)
         IN  IF IsNone(b) THEN None
             ELSE LET mean_asset == RDiv(Sum(excess_asset), FromInt(Len(excess_asset)))
                      mean_market == RDiv(Sum(excess_market), FromInt(Len(excess_market)))
                  IN  Some(RSub(mean_asset, RMul(Unwrap(b), mean_market)))

alpha(asset_rets, market_rets, rf_rets) ==
    IF Len(asset_rets) # Len(market_rets) \/ Len(asset_rets) # Len(rf_rets)
    THEN None
    ELSE LET excess_asset == ZipSub(asset_rets, rf_rets)
             excess_market == ZipSub(market_rets, rf_rets)
             b == beta(excess_asset, excess_market)
         IN  IF IsNone(b) THEN None
             ELSE LET mean_asset == RDiv(Sum(excess_asset), FromInt(Len(excess_asset)))
                      mean_market == RDiv(Sum(excess_market), FromInt(Len(excess_market)))
                  IN  Some(RSub(mean_asset, RMul(Unwrap(b), mean_market)))

\* ------------------------------------------------------------------------
\* State
\* ------------------------------------------------------------------------
VARIABLES
    \* a call of one metrics function: its arguments, which function was
    \* called ("none" before the call) and what it returned
    in_candles, in_returns, in_asset, in_market, in_rf, call, result,
    \* a call of monte_carlo_sharpe: its arguments, its position
    \* ("call", "loop", "done"), the number of trials run, calc_stats of
    \* the path of the last trial, the output vector, and per trial run
    \* whether its annualized volatility was > 0
    avr, std_dev, rf, n_sims, mc_pc, trials, sim_stats, sim_sharpe_r, vol_hist,
    \* a run of main: what the files named by the arguments load as and
    \* the --risk-free rate (args), the position of main, its locals
    \* returns, bench_returns and rf_daily, what main returned, its locals
    \* stats, sharpe_sims and avg_sharpe (None until assigned), and what it
    \* has printed on the standard output and the standard error
    args, pc, returns, bench_returns, rf_daily, main_result,
    stats, sharpe_sims, avg_sharpe, stdout, stderr,
    \* a call of a loader of data.rs: whether the file opens, the header
    \* record and the data records the CSV reader yields, the requested
    \* maturity column, the position of the loader ("rf_loop", "csv_loop",
    \* "done"), the number of records consumed, the vectors rf_returns and
    \* candles being built, and what the loader returned
    opens, header, rows, maturity, ld_pc, row_idx, rf_returns, candles, load_result

hvars == <<in_candles, in_returns, in_asset, in_market, in_rf, call, result>>
mcargs == <<avr, std_dev, rf, n_sims>>
mcvars == <<avr, std_dev, rf, n_sims, mc_pc, trials, sim_stats, sim_sharpe_r, vol_hist>>
mainvars == <<args, pc, returns, bench_returns, rf_daily, main_result,
              stats, sharpe_sims, avg_sharpe, stdout, stderr>>
ldvars == <<opens, header, rows, maturity, ld_pc, row_idx, rf_returns, candles, load_result>>
vars == <<hvars, mcvars, mainvars, ldvars>>

\* All sequences over S of length at most n
SeqsUpTo(S, n) == UNION {[1..k -> S] : k \in 0..n}

CloseVals == {1, 2, 4}
RetVals == {FromInt(-1), FromInt(0), FromInt(2)}
AlphaVals == {FromInt(0), FromInt(1)}

CandleSeqs == SeqsUpTo({Candle(c) : c \in CloseVals}, MaxCandles)

HarnessIdle ==
    /\ in_candles = <<>>
    /\ in_returns = <<>>
    /\ in_asset = <<>>
    /\ in_market = <<>>
    /\ in_rf = <<>>
    /\ call = "none"
    /\ result = <<>>

McIdle ==
    /\ avr = Zero
    /\ std_dev = Zero
    /\ rf = Zero
    /\ n_sims = 0
    /\ mc_pc = "idle"
    /\ trials = 0
    /\ sim_stats = None
    /\ sim_sharpe_r = <<>>
    /\ vol_hist = <<>>

MainIdle ==
    /\ args = <<>>
    /\ pc = "idle"
    /\ returns = <<>>
    /\ bench_returns = <<>>
    /\ rf_daily = <<>>
    /\ main_result = "none"
    /\ stats = <<>>
    /\ sharpe_sims = <<>>
    /\ avg_sharpe = <<>>
    /\ stdout = <<>>
    /\ stderr = <<>>

LoadIdle ==
    /\ opens = TRUE
    /\ header = <<>>
    /\ rows = <<>>
    /\ maturity = ""
    /\ ld_pc = "idle"
    /\ row_idx = 0
    /\ rf_returns = <<>>
    /\ candles = <<>>
    /\ load_result = <<>>

\* ------------------------------------------------------------------------
\* Calls of the pure functions on arguments drawn by Init
\* ------------------------------------------------------------------------
CallDailyReturns ==
    /\ call = "none"
    /\ call' = "daily_returns"
    /\ result' = daily_returns(in_candles)
    /\ UNCHANGED <<in_candles, in_returns, in_asset, in_market, in_rf>>
    /\ UNCHANGED mcvars
    /\ UNCHANGED mainvars
    /\ UNCHANGED ldvars

CallCalcStats ==
    /\ call = "none"
    /\ call' = "calc_stats"
    /\ result' = calc_stats(in_returns)
    /\ UNCHANGED <<in_candles, in_returns, in_asset, in_market, in_rf>>
    /\ UNCHANGED mcvars
    /\ UNCHANGED mainvars
    /\ UNCHANGED ldvars

CallBeta ==
    /\ call = "none"
    /\ call' = "beta"
    /\ result' = beta(in_asset, in_market)
    /\ UNCHANGED <<in_candles, in_returns, in_asset, in_market, in_rf>>
    /\ UNCHANGED mcvars
    /\ UNCHANGED mainvars
    /\ UNCHANGED ldvars

CallAlpha ==
    /\ call = "none"
    /\ call' = "alpha"
    /\ result' = alpha(in_asset, in_market, in_rf)
    /\ UNCHANGED <<in_candles, in_returns, in_asset, in_market, in_rf>>
    /\ UNCHANGED mcvars
    /\ UNCHANGED mainvars
    /\ UNCHANGED ldvars

\* daily_returns and calc_stats
InitReturns ==
    /\ LoadIdle
    /\ in_candles \in CandleSeqs
    /\ in_returns \in SeqsUpTo(RetVals, MaxLen)
    /\ in_asset = <<>>
    /\ in_market = <<>>
    /\ in_rf = <<>>
    /\ call = "none"
    /\ result = <<>>
    /\ McIdle
    /\ MainIdle

NextReturns == CallDailyReturns \/ CallCalcStats

SpecReturns == InitReturns /\ [][NextReturns]_vars

\* beta
InitBeta ==
    /\ LoadIdle
    /\ in_candles = <<>>
    /\ in_returns = <<>>
    /\ in_asset \in SeqsUpTo(RetVals, MaxLen)
    /\ in_market \in SeqsUpTo(RetVals, MaxLen)
    /\ in_rf = <<>>
    /\ call = "none"
    /\ result = <<>>
    /\ McIdle
    /\ MainIdle

NextBeta == CallBeta

SpecBeta == InitBeta /\ [][NextBeta]_vars

\* alpha
InitAlpha ==
    /\ LoadIdle
    /\ in_candles = <<>>
    /\ in_returns = <<>>
    /\ in_asset \in SeqsUpTo(AlphaVals, MaxAlphaLen)
    /\ in_market \in SeqsUpTo(AlphaVals, MaxAlphaLen)
    /\ in_rf \in SeqsUpTo(AlphaVals, MaxAlphaLen)
    /\ call = "none"
    /\ result = <<>>
    /\ McIdle
    /\ MainIdle

NextAlpha == CallAlpha

SpecAlpha == InitAlpha /\ [][NextAlpha]_vars

\* ------------------------------------------------------------------------
\* monte_carlo_sharpe, one action per step: the entry with the test of
\* std_dev, one trial of the loop, the return
\* ------------------------------------------------------------------------
\* Standard normal deviates the generator may yield
ZVals == {-1, 0, 1}
\* Where a path changes from one deviate to another
Splits == {126}

\* The deviates of one path: TRADING_DAYS_PER_YEAR draws, the first k equal
\* to a and the others to b.  With a = b all draws are equal: f64 gives
\* such a path whenever std_dev is below the rounding step of avr (then
\* avr + std_dev * z rounds to avr for every z).
ZPaths ==
    {[i \in 1..TRADING_DAYS_PER_YEAR |-> IF i <= k THEN a ELSE b] :
        a \in ZVals, b \in ZVals, k \in Splits}

\* Normal::sample: mean + std_dev * z for a standard normal deviate z
Sample(m, s, z) == RAdd(m, RMul(s, FromInt(z)))

\* the paths of one year of daily returns, (0..TRADING_DAYS_PER_YEAR).map(sample)
SimPaths(m, s) ==
    {[i \in 1..TRADING_DAYS_PER_YEAR |-> Sample(m, s, zs[i])] : zs \in ZPaths}

\* sim_avr * TRADING_DAYS_PER_YEAR
AnnualRet(st) == RMul(st[1], FromInt(TRADING_DAYS_PER_YEAR))
\* sim_std * sqrt(TRADING_DAYS_PER_YEAR)
AnnualVol(st) == SurdMul(st[2], Sqrt(FromInt(TRADING_DAYS_PER_YEAR)))

\* whether the statistics of a path pass the tests of the loop body
VolPositive(st) == IsSome(st) /\ SurdPos(AnnualVol(Unwrap(st)))

\* TrialPush pushing 0 for a trial of zero volatility
TrialPush_zero(out, st, r) ==
    IF IsSome(st)
    THEN IF SurdPos(AnnualVol(Unwrap(st)))
         THEN Append(out, RDivSurd(RSub(AnnualRet(Unwrap(st)), r), AnnualVol(Unwrap(st))))
         ELSE Append(out, <<Zero, 1>>)
    ELSE out

\* TrialPush testing and dividing by the daily volatility, not the annualized
TrialPush_daily(out, st, r) ==
    IF IsSome(st)
    THEN IF SurdPos(Unwrap(st)[2])
         THEN Append(out, RDivSurd(RSub(AnnualRet(Unwrap(st)), r), Unwrap(st)[2]))
         ELSE out
    ELSE out

\* The body of the loop on the statistics st of the path drawn: the output
\* vector after it.
TrialPush(out, st, r) ==
    IF IsSome(st)
    THEN IF SurdPos(AnnualVol(Unwrap(st)))
         THEN Append(out, RDivSurd(RSub(AnnualRet(Unwrap(st)), r), AnnualVol(Unwrap(st))))
         ELSE out
    ELSE out

\* the test skipped
ZeroStdDev_skipped(s) == FALSE

\* std_dev == 0.0
ZeroStdDev(s) == s = Zero

\* lines 49-56.  Normal::new(avr, std_dev).unwrap() succeeds for the finite,
\* non-negative std_dev drawn by InitMC.
McEnter ==
    /\ mc_pc = "call"
    /\ IF ZeroStdDev(std_dev)
       THEN mc_pc' = "done"
       ELSE mc_pc' = "loop"
    /\ sim_sharpe_r' = <<>>
    /\ UNCHANGED <<mcargs, trials, sim_stats, vol_hist>>
    /\ UNCHANGED hvars
    /\ UNCHANGED mainvars
    /\ UNCHANGED ldvars

McTrial ==
    /\ mc_pc = "loop"
    /\ trials < n_sims
    /\ \E sim_ret \in SimPaths(avr, std_dev) :
          LET st == calc_stats(sim_ret) IN
          /\ sim_stats' = st
          /\ sim_sharpe_r' = TrialPush(sim_sharpe_r, st, rf)
          /\ vol_hist' = Append(vol_hist, VolPositive(st))
    /\ trials' = trials + 1
    /\ UNCHANGED <<mcargs, mc_pc>>
    /\ UNCHANGED hvars
    /\ UNCHANGED mainvars
    /\ UNCHANGED ldvars

McReturn ==
    /\ mc_pc = "loop"
    /\ trials = n_sims
    /\ mc_pc' = "done"
    /\ UNCHANGED <<mcargs, trials, sim_stats, sim_sharpe_r, vol_hist>>
    /\ UNCHANGED hvars
    /\ UNCHANGED mainvars
    /\ UNCHANGED ldvars

McAvrVals == {FromInt(0), FromInt(1)}
McStdVals == {FromInt(0), Rat(1, 2)}
McRfVals == {FromInt(0), FromInt(1)}

InitMC ==
    /\ LoadIdle
    /\ HarnessIdle
    /\ MainIdle
    /\ avr \in McAvrVals
    /\ std_dev \in McStdVals
    /\ rf \in McRfVals
    /\ n_sims \in 0..MaxSims
    /\ mc_pc = "call"
    /\ trials = 0
    /\ sim_stats = None
    /\ sim_sharpe_r = <<>>
    /\ vol_hist = <<>>

NextMC == McEnter \/ McTrial \/ McReturn

SpecMC == InitMC /\ [][NextMC]_vars

\* ------------------------------------------------------------------------
\* main.rs: main
\* ------------------------------------------------------------------------
\* Result<T, E>: Ok(v) is <<"Ok", v>>, an Err is <<"Err">>
Ok(v) == <<"Ok", v>>
Err == <<"Err">>
IsOk(r) == r[1] = "Ok"
OkVal(r) == r[2]

\* An annual rate a with 1 + a = g^252, kept as its daily growth factor g
Annual(g) == [factor |-> g]
\* (1.0 + a).powf(1.0 / 252.0) - 1.0
DailyRate(a) == RSub(a.factor, FromInt(1))

\* vec![x; n]
Repeat(x, n) == [i \in 1..n |-> x]

\* Vec::resize(n, x): truncated to n, or extended to n with copies of x
Resize(v, n, x) == [i \in 1..n |-> IF i <= Len(v) THEN v[i] ELSE x]

\* slice.last() of a non-empty slice
Last(v) == v[Len(v)]

\* AlignSeries padding with the first value of the series
AlignSeries_pad_first(series, n) ==
    IF Len(series) < n
    THEN Resize(series, n, series[1])
    ELSE SubSeq(series, 1, n)

\* AlignSeries without the cut of a longer series
AlignSeries_uncut(series, n) ==
    IF Len(series) < n
    THEN Resize(series, n, Last(series))
    ELSE series

\* The risk-free series made as long as the returns, for a series on which
\* last() is Some: padded with its last value, or cut to its first n values
AlignSeries(series, n) ==
    IF Len(series) < n
    THEN Resize(series, n, Last(series))
    ELSE SubSeq(series, 1, n)

\* lines 33-40: the two price files are loaded (an Err is returned by ?),
\* then the returns are computed
MainLoad ==
    /\ pc = "start"
    /\ IF ~IsOk(args.file)
       THEN /\ pc' = "returned"
            /\ main_result' = "Err(file)"
            /\ UNCHANGED <<returns, bench_returns>>
       ELSE IF ~IsOk(args.benchmark)
       THEN /\ pc' = "returned"
            /\ main_result' = "Err(benchmark)"
            /\ UNCHANGED <<returns, bench_returns>>
       ELSE /\ pc' = "loaded"
            /\ returns' = daily_returns(OkVal(args.file))
            /\ bench_returns' = daily_returns(OkVal(args.benchmark))
            /\ UNCHANGED main_result
    /\ UNCHANGED <<args, rf_daily, stats, sharpe_sims, avg_sharpe, stdout, stderr>>
    /\ UNCHANGED hvars
    /\ UNCHANGED mcvars
    /\ UNCHANGED ldvars

\* lines 43-58: rf_daily from the risk-free file, padded or cut to the
\* length of returns, or from the --risk-free rate.  series.last().unwrap()
\* panics on an empty series; it is evaluated only when the series is
\* shorter than returns.
MainAlign ==
    /\ pc = "loaded"
    /\ IF IsSome(args.risk_free_file)
       THEN LET loaded == Unwrap(args.risk_free_file) IN
            IF ~IsOk(loaded)
            THEN /\ pc' = "returned"
                 /\ main_result' = "Err(risk_free_file)"
                 /\ UNCHANGED rf_daily
            ELSE LET series == OkVal(loaded) IN
                 IF Len(series) < Len(returns) /\ series = <<>>
                 THEN /\ pc' = "panicked"
                      /\ UNCHANGED <<rf_daily, main_result>>
                 ELSE /\ pc' = "aligned"
                      /\ rf_daily' = AlignSeries(series, Len(returns))
                      /\ UNCHANGED main_result
       ELSE /\ pc' = "aligned"
            /\ rf_daily' = Repeat(DailyRate(args.risk_free), Len(returns))
            /\ UNCHANGED main_result
    /\ UNCHANGED <<args, returns, bench_returns, stats, sharpe_sims, avg_sharpe,
                   stdout, stderr>>
    /\ UNCHANGED hvars
    /\ UNCHANGED mcvars
    /\ UNCHANGED ldvars

\* f64 NaN, the value of 0.0 / 0.0
NaN == <<0, 0>>

\* The Sharpe ratios the trials of monte_carlo_sharpe may push
SharpeVals == {FromInt(-1), FromInt(2)}

\* What monte_carlo_sharpe(avr, std_dev, rf, n) may return for the standard
\* deviation sd of calc_stats, a surd: no value when sd is 0.0, and else
\* one value for each of the n trials whose annualized volatility is > 0.
\* main runs 1000 trials; the model runs MainSims.
MonteCarloSharpe(sd, n) ==
    IF ZeroStdDev(sd[1]) THEN {<<>>} ELSE SeqsUpTo(SharpeVals, n)

\* sharpe_sims.iter().sum::<f64>() / sharpe_sims.len() as f64: the sum of
\* no value is 0.0 and 0.0 / 0.0 is NaN
AvgSharpe(sims) ==
    IF Len(sims) = 0 THEN NaN ELSE RDiv(Sum(sims), FromInt(Len(sims)))

\* lines 61-64 and 84-86: calc_stats of the returns, printed, or the
\* diagnostic and the end of main
MainStats ==
    /\ pc = "aligned"
    /\ stats' = calc_stats(returns)
    /\ IF IsSome(calc_stats(returns))
       THEN /\ pc' = "stats"
            /\ stdout' = stdout \o
                  << <<"Portfolio Metrics:">>,
                     <<"Avg Daily Return", Unwrap(calc_stats(returns))[1]>>,
                     <<"Daily Volatility", Unwrap(calc_stats(returns))[2]>> >>
            /\ UNCHANGED <<stderr, main_result>>
       ELSE /\ pc' = "returned"
            /\ main_result' = "Ok"
            /\ stderr' = Append(stderr, "Not enough return data to calculate metrics")
            /\ UNCHANGED stdout
    /\ UNCHANGED <<args, returns, bench_returns, rf_daily, sharpe_sims, avg_sharpe>>
    /\ UNCHANGED hvars
    /\ UNCHANGED mcvars
    /\ UNCHANGED ldvars

\* lines 67-70: rf_daily[0] panics on an empty vector; the average of the
\* simulated Sharpe ratios is printed
MainSharpe ==
    /\ pc = "stats"
    /\ IF Len(rf_daily) = 0
       THEN /\ pc' = "panicked"
            /\ UNCHANGED <<sharpe_sims, avg_sharpe, stdout>>
       ELSE \E sims \in MonteCarloSharpe(Unwrap(stats)[2], MainSims) :
               /\ pc' = "sharpe"
               /\ sharpe_sims' = sims
               /\ avg_sharpe' = Some(AvgSharpe(sims))
               /\ stdout' = Append(stdout, <<"Monte Carlo Avg Sharpe", AvgSharpe(sims)>>)
    /\ UNCHANGED <<args, returns, bench_returns, rf_daily, main_result, stats, stderr>>
    /\ UNCHANGED hvars
    /\ UNCHANGED mcvars
    /\ UNCHANGED ldvars

\* lines 73-74 and 81-83: beta printed, or its diagnostic and the end of main
MainBeta ==
    /\ pc = "sharpe"
    /\ IF IsSome(beta(returns, bench_returns))
       THEN /\ pc' = "beta"
            /\ stdout' = Append(stdout,
                  <<"Beta vs Benchmark", Unwrap(beta(returns, bench_returns))>>)
            /\ UNCHANGED <<stderr, main_result>>
       ELSE /\ pc' = "returned"
            /\ main_result' = "Ok"
            /\ stderr' = Append(stderr, "Could not calculate beta (check lengths)")
            /\ UNCHANGED stdout
    /\ UNCHANGED <<args, returns, bench_returns, rf_daily, stats, sharpe_sims, avg_sharpe>>
    /\ UNCHANGED hvars
    /\ UNCHANGED mcvars
    /\ UNCHANGED ldvars

\* lines 76-80 and 88: alpha printed, or its diagnostic; Ok(())
MainAlpha ==
    /\ pc = "beta"
    /\ IF IsSome(alpha(returns, bench_returns, rf_daily))
       THEN /\ stdout' = Append(stdout,
                  <<"Alpha vs Benchmark", Unwrap(alpha(returns, bench_returns, rf_daily))>>)
            /\ UNCHANGED stderr
       ELSE /\ stderr' = Append(stderr, "Could not calculate alpha (check lengths)")
            /\ UNCHANGED stdout
    /\ pc' = "returned"
    /\ main_result' = "Ok"
    /\ UNCHANGED <<args, returns, bench_returns, rf_daily, stats, sharpe_sims, avg_sharpe>>
    /\ UNCHANGED hvars
    /\ UNCHANGED mcvars
    /\ UNCHANGED ldvars

\* What a price file loads as: an error, or its candles
MainCloseVals == {1, 2}
PriceFiles ==
    {Err} \cup {Ok(cs) : cs \in SeqsUpTo({Candle(c) : c \in MainCloseVals}, MaxRows)}

\* What the benchmark file loads as
BenchFiles ==
    {Err} \cup {Ok(cs) : cs \in SeqsUpTo({Candle(c) : c \in MainCloseVals}, MaxBenchRows)}

\* What load_risk_free_series returns: an error, or the per-period rates.
\* The returns of the model are multiples of ln 2 and the rates are drawn
\* in the same unit, so that a rate can equal a return.
RfRateVals == {FromInt(0), FromInt(1)}
RfFiles == {Err} \cup {Ok(rs) : rs \in SeqsUpTo(RfRateVals, MaxRfRows)}

\* --risk-free-file is given or not; --risk-free is read only when not
RfArgs ==
    {[risk_free_file |-> Some(r), risk_free |-> Annual(FromInt(1))] : r \in RfFiles}
    \cup
    {[risk_free_file |-> None, risk_free |-> Annual(g)] : g \in {FromInt(1), Rat(3, 2)}}

InitMain ==
    /\ LoadIdle
    /\ HarnessIdle
    /\ McIdle
    /\ \E f \in PriceFiles, b \in BenchFiles, r \in RfArgs :
          args = [file |-> f, benchmark |-> b,
                  risk_free_file |-> r.risk_free_file, risk_free |-> r.risk_free]
    /\ pc = "start"
    /\ returns = <<>>
    /\ bench_returns = <<>>
    /\ rf_daily = <<>>
    /\ main_result = "none"
    /\ stats = <<>>
    /\ sharpe_sims = <<>>
    /\ avg_sharpe = <<>>
    /\ stdout = <<>>
    /\ stderr = <<>>

NextMain == MainLoad \/ MainAlign \/ MainStats \/ MainSharpe \/ MainBeta \/ MainAlpha

SpecMain == InitMain /\ [][NextMain]_vars

\* ------------------------------------------------------------------------
\* data.rs: the loaders.  The csv crate splits the bytes of the input into
\* records of cells, the first record being the header; the model starts
\* from these records.  A cell is <<kind, value>>: kind is the date format
\* its text is written in, "f64" for a text that parses as an f64, or
\* "text" for any other text, the empty one included.
\* ------------------------------------------------------------------------
FORMATS == <<"%Y-%m-%d", "%m/%d/%Y">>

\* NaiveDate::parse_from_str(s, fmt)
parse_from_str(s, fmt) == IF s[1] = fmt THEN Ok(s[2]) ELSE Err

\* date_format::deserialize: the first of FORMATS, from the i-th on, that
\* parses s, or an error
RECURSIVE date_format_from(_, _)
date_format_from(s, i) ==
    IF i > Len(FORMATS) THEN Err
    ELSE IF IsOk(parse_from_str(s, FORMATS[i])) THEN parse_from_str(s, FORMATS[i])
    ELSE date_format_from(s, i + 1)

\* date_format::deserialize trying the first format only
date_format_first(s) == parse_from_str(s, FORMATS[1])

date_format(s) == date_format_from(s, 1)

\* The position of the column called name in the header, 0 when there is none
ColumnOf(hdr, name) ==
    IF \E i \in 1..Len(hdr) : hdr[i] = name
    THEN CHOOSE i \in 1..Len(hdr) : hdr[i] = name
    ELSE 0

\* The cell of a record under the column called name: None when the header
\* has no such column or the record ends before it
Field(hdr, rec, name) ==
    LET i == ColumnOf(hdr, name)
    IN  IF i = 0 \/ i > Len(rec) THEN None ELSE Some(rec[i])

\* f64 deserialized from a cell
ParseF64(cell) == IF cell[1] = "f64" THEN Ok(cell[2]) ELSE Err

\* MaturityValue without csv::invalid_option: such a cell is an error
MaturityValue_strict(cell) ==
    IF IsOk(ParseF64(cell)) THEN Ok(Some(OkVal(ParseF64(cell)))) ELSE Err

\* MaturityValue: csv::invalid_option gives None for a cell that does not
\* deserialize as an f64
MaturityValue(cell) ==
    IF IsOk(ParseF64(cell)) THEN Ok(Some(OkVal(ParseF64(cell)))) ELSE Ok(None)

\* The columns a record has a cell for
ColumnsOf(hdr, rec) == {hdr[i] : i \in 1..Min(Len(hdr), Len(rec))}

\* RiskFreeRateRow deserialized from a record: the date from the column
\* "date", the other columns flattened into the map maturities
RiskFreeRateRow(hdr, rec) ==
    LET d == Field(hdr, rec, "date")
        others == ColumnsOf(hdr, rec) \ {"date"}
        cells == [name \in others |-> MaturityValue(Unwrap(Field(hdr, rec, name)))]
    IN  IF IsNone(d) THEN Err
        ELSE IF ~IsOk(date_format(Unwrap(d))) THEN Err
        ELSE IF \E name \in others : ~IsOk(cells[name]) THEN Err
        ELSE Ok([date |-> OkVal(date_format(Unwrap(d))),
                 maturities |-> [name \in others |-> OkVal(cells[name])]])

\* row.maturities.get(maturity).and_then(|rate| rate.0)
GetRate(row, name) ==
    IF name \in DOMAIN row.maturities THEN row.maturities[name] ELSE None

\* A yield in percent: the number 100 * a for an annual rate a
Percent(a) == [percent_of |-> a]
\* rate / 100.0
ToDecimal(rate) == rate.percent_of

\* lines 104-108: the vector after the row
PushRate(out, row, name) ==
    IF IsSome(GetRate(row, name))
    THEN Append(out, DailyRate(ToDecimal(Unwrap(GetRate(row, name)))))
    ELSE out

\* line 94: File::open(path)?
RfOpen ==
    /\ ld_pc = "rf_call"
    /\ IF opens
       THEN /\ ld_pc' = "rf_loop"
            /\ UNCHANGED load_result
       ELSE /\ ld_pc' = "rf_done"
            /\ load_result' = Some(Err)
    /\ rf_returns' = <<>>
    /\ UNCHANGED <<opens, header, rows, maturity, row_idx, candles>>
    /\ UNCHANGED hvars
    /\ UNCHANGED mcvars
    /\ UNCHANGED mainvars

\* lines 101-109: one record of the loop; result? returns the error
RfRow ==
    /\ ld_pc = "rf_loop"
    /\ row_idx < Len(rows)
    /\ LET row == RiskFreeRateRow(header, rows[row_idx + 1]) IN
       IF IsOk(row)
       THEN /\ rf_returns' = PushRate(rf_returns, OkVal(row), maturity)
            /\ UNCHANGED <<ld_pc, load_result>>
       ELSE /\ ld_pc' = "rf_done"
            /\ load_result' = Some(Err)
            /\ UNCHANGED rf_returns
    /\ row_idx' = row_idx + 1
    /\ UNCHANGED <<opens, header, rows, maturity, candles>>
    /\ UNCHANGED hvars
    /\ UNCHANGED mcvars
    /\ UNCHANGED mainvars

\* line 111: Ok(rf_returns)
RfReturn ==
    /\ ld_pc = "rf_loop"
    /\ row_idx = Len(rows)
    /\ ld_pc' = "rf_done"
    /\ load_result' = Some(Ok(rf_returns))
    /\ UNCHANGED <<opens, header, rows, maturity, row_idx, rf_returns, candles>>
    /\ UNCHANGED hvars
    /\ UNCHANGED mcvars
    /\ UNCHANGED mainvars

\* The header of a yield file and the columns that may be requested
RfHeader == <<"date", "1 Mo">>
Maturities == {"1 Mo", "3 Mo"}

\* The cells of a yield file: dates in either format, a text that is no
\* date, yields, a text that is no number
RfDateCells == {<<"%Y-%m-%d", 1>>, <<"%m/%d/%Y", 2>>, <<"text", 0>>}
RfYieldCells ==
    {<<"f64", Percent(Annual(FromInt(1)))>>, <<"f64", Percent(Annual(Rat(3, 2)))>>,
     <<"text", 0>>}

\* The records of a yield file: the reader is flexible, a record may end
\* before the yield column
RfRecords ==
    {<<d>> : d \in RfDateCells} \cup {<<d, y>> : d \in RfDateCells, y \in RfYieldCells}

InitRiskFree ==
    /\ HarnessIdle
    /\ McIdle
    /\ MainIdle
    /\ opens \in BOOLEAN
    /\ header = RfHeader
    /\ rows \in SeqsUpTo(RfRecords, MaxRecords)
    /\ opens = FALSE => rows = <<>>
    /\ maturity \in Maturities
    /\ ld_pc = "rf_call"
    /\ row_idx = 0
    /\ rf_returns = <<>>
    /\ candles = <<>>
    /\ load_result = None

NextRiskFree == RfOpen \/ RfRow \/ RfReturn

SpecRiskFree == InitRiskFree /\ [][NextRiskFree]_vars

\* The fields of Candle, the date and the five numbers
CandleNumbers == <<"open", "high", "low", "close", "volume">>
CandleFields == <<"date">> \o CandleNumbers

\* Candle deserialized from a record.  The reader of load_csv_from_reader
\* is not flexible: a record with another number of cells than the header
\* is an error of the reader.
CandleRow(hdr, rec) ==
    IF Len(rec) # Len(hdr) THEN Err
    ELSE IF \E i \in 1..Len(CandleFields) : IsNone(Field(hdr, rec, CandleFields[i])) THEN Err
    ELSE IF ~IsOk(date_format(Unwrap(Field(hdr, rec, "date")))) THEN Err
    ELSE IF \E i \in 1..Len(CandleNumbers) :
                ~IsOk(ParseF64(Unwrap(Field(hdr, rec, CandleNumbers[i])))) THEN Err
    ELSE Ok([date |-> OkVal(date_format(Unwrap(Field(hdr, rec, "date")))),
             open |-> OkVal(ParseF64(Unwrap(Field(hdr, rec, "open")))),
             high |-> OkVal(ParseF64(Unwrap(Field(hdr, rec, "high")))),
             low |-> OkVal(ParseF64(Unwrap(Field(hdr, rec, "low")))),
             close |-> OkVal(ParseF64(Unwrap(Field(hdr, rec, "close")))),
             volume |-> OkVal(ParseF64(Unwrap(Field(hdr, rec, "volume"))))])

\* lines 53-56: one record of the loop; result? returns the error and the
\* vector is dropped
CsvRow ==
    /\ ld_pc = "csv_loop"
    /\ row_idx < Len(rows)
    /\ LET record == CandleRow(header, rows[row_idx + 1]) IN
       IF IsOk(record)
       THEN /\ candles' = Append(candles, OkVal(record))
            /\ UNCHANGED <<ld_pc, load_result>>
       ELSE /\ ld_pc' = "csv_done"
            /\ load_result' = Some(Err)
            /\ candles' = <<>>
    /\ row_idx' = row_idx + 1
    /\ UNCHANGED <<opens, header, rows, maturity, rf_returns>>
    /\ UNCHANGED hvars
    /\ UNCHANGED mcvars
    /\ UNCHANGED mainvars

\* line 57: Ok(candles)
CsvReturn ==
    /\ ld_pc = "csv_loop"
    /\ row_idx = Len(rows)
    /\ ld_pc' = "csv_done"
    /\ load_result' = Some(Ok(candles))
    /\ UNCHANGED <<opens, header, rows, maturity, row_idx, rf_returns, candles>>
    /\ UNCHANGED hvars
    /\ UNCHANGED mcvars
    /\ UNCHANGED mainvars

\* The header records of a price input: the columns of Candle, the same in
\* another order, one column short; an input with no bytes has no header
CsvHeaders ==
    {<<"date", "open", "high", "low", "close", "volume">>,
     <<"date", "close", "high", "low", "open", "volume">>,
     <<"date", "open", "high", "low", "close">>}

CsvDateCells == {<<"%Y-%m-%d", 1>>, <<"%m/%d/%Y", 2>>, <<"text", 0>>}
CsvNumberCells == {<<"f64", FromInt(1)>>, <<"f64", FromInt(2)>>, <<"text", 0>>}

\* The data records of a price input: six cells with any date cell and any
\* fifth cell, a record with a text in a number column, a record of five
\* cells and one of seven
CsvRecords ==
    {<<d, <<"f64", FromInt(3)>>, <<"f64", FromInt(4)>>, <<"f64", FromInt(0)>>, c,
       <<"f64", FromInt(5)>>>> : d \in CsvDateCells, c \in CsvNumberCells}
    \cup
    {<<<<"%Y-%m-%d", 1>>, <<"text", 0>>, <<"f64", FromInt(4)>>, <<"f64", FromInt(0)>>,
       <<"f64", FromInt(1)>>, <<"f64", FromInt(5)>>>>,
     <<<<"%Y-%m-%d", 1>>, <<"f64", FromInt(3)>>, <<"f64", FromInt(4)>>,
       <<"f64", FromInt(0)>>, <<"f64", FromInt(1)>>>>,
     <<<<"%Y-%m-%d", 1>>, <<"f64", FromInt(3)>>, <<"f64", FromInt(4)>>,
       <<"f64", FromInt(0)>>, <<"f64", FromInt(1)>>, <<"f64", FromInt(5)>>,
       <<"f64", FromInt(6)>>>>}

InitCsv ==
    /\ HarnessIdle
    /\ McIdle
    /\ MainIdle
    /\ opens = TRUE
    /\ header \in CsvHeaders \cup {<<>>}
    /\ rows \in SeqsUpTo(CsvRecords, MaxRecords)
    /\ header = <<>> => rows = <<>>
    /\ maturity = ""
    /\ ld_pc = "csv_loop"
    /\ row_idx = 0
    /\ rf_returns = <<>>
    /\ candles = <<>>
    /\ load_result = None

NextCsv == CsvRow \/ CsvReturn

SpecCsv == InitCsv /\ [][NextCsv]_vars

\* ------------------------------------------------------------------------
\* Claims
\* ------------------------------------------------------------------------
IsConstant(xs) == \A i, j \in 1..Len(xs) : xs[i] = xs[j]

\* C1: daily_returns of n candles has length n-1 (0 when n < 2), and its
\* element i is ln(close[i+1] / close[i]): exp of it times close[i] is
\* close[i+1].
C1_DailyReturns ==
    call = "daily_returns" =>
        /\ Len(result) = (IF Len(in_candles) < 2 THEN 0 ELSE Len(in_candles) - 1)
        /\ \A i \in 1..Len(result) :
              /\ result[i] = Ln(RDiv(in_candles[i + 1].close, in_candles[i].close))
              /\ RMul(Exp(result[i]), in_candles[i].close) = in_candles[i + 1].close

C1_Witness ==
    /\ call = "daily_returns"
    /\ Len(in_candles) = 3
    /\ Len(result) = 2
    /\ RPos(result[1])
    /\ RLess(result[2], Zero)

\* C2: calc_stats is None exactly when the series has fewer than 2
\* elements; otherwise mean * n is the sum of the series and
\* stdDev^2 * (n-1) is the sum of the squared deviations from the mean.
C2_CalcStats ==
    call = "calc_stats" =>
        LET n == Len(in_returns) IN
        /\ IsNone(result) <=> n < 2
        /\ IsSome(result) =>
              LET mean == Unwrap(result)[1]
                  sdev == Unwrap(result)[2]
              IN  /\ RMul(mean, FromInt(n)) = Sum(in_returns)
                  /\ ~RLess(sdev[1], Zero)
                  /\ RMul(SurdSq(sdev), FromInt(n - 1))
                        = Sum([i \in 1..n |-> Powi2(RSub(in_returns[i], mean))])

C2_Witness ==
    /\ call = "calc_stats"
    /\ Len(in_returns) = 3
    /\ IsSome(result)
    /\ SurdPos(Unwrap(result)[2])
    /\ Unwrap(result)[1] # Zero

\* C3: beta is None exactly when the two series differ in length, or their
\* common length is below 2, or the benchmark series is constant.
C3_BetaAbsent ==
    call = "beta" =>
        (IsNone(result) <=>
            \/ Len(in_asset) # Len(in_market)
            \/ Len(in_asset) < 2
            \/ IsConstant(in_market))

C3_Witness ==
    /\ call = "beta"
    /\ Len(in_asset) = Len(in_market)
    /\ Len(in_asset) = 3
    /\ IsConstant(in_market)
    /\ ~IsConstant(in_asset)
    /\ IsNone(result)

\* the covariance and the variance with the divisor n
PopMean(xs) == RDiv(Sum(xs), FromInt(Len(xs)))
PopCovariance(xs, ys) ==
    RDiv(Sum([i \in 1..Len(xs) |->
                RMul(RSub(xs[i], PopMean(xs)), RSub(ys[i], PopMean(ys)))]),
         FromInt(Len(xs)))
PopVariance(xs) == PopCovariance(xs, xs)

\* C4: for equal-length series of length >= 2 with a non-constant
\* benchmark, beta returns the population covariance of asset and benchmark
\* divided by the population variance of the benchmark.
C4_BetaValue ==
    (/\ call = "beta"
     /\ Len(in_asset) = Len(in_market)
     /\ Len(in_asset) >= 2
     /\ ~IsConstant(in_market))
    => /\ IsSome(result)
       /\ Unwrap(result) = RDiv(PopCovariance(in_asset, in_market), PopVariance(in_market))
       /\ RMul(Unwrap(result), PopVariance(in_market)) = PopCovariance(in_asset, in_market)

C4_Witness ==
    /\ call = "beta"
    /\ Len(in_asset) = 3
    /\ Len(in_market) = 3
    /\ ~IsConstant(in_market)
    /\ IsSome(result)
    /\ Unwrap(result) \notin {Zero, FromInt(1)}

\* the elementwise excess of a series over a risk-free series as long
Excess(xs, rfs) == [i \in 1..Len(xs) |-> RSub(xs[i], rfs[i])]

\* C5: alpha is None unless the three series have the same length; when
\* they do it is None when beta of the excess series is None (length below
\* 2 or constant excess benchmark) and otherwise
\* mean(excessAsset) - beta(excessAsset, excessBenchmark) * mean(excessBenchmark).
C5_Alpha ==
    call = "alpha" =>
        IF Len(in_asset) # Len(in_market) \/ Len(in_asset) # Len(in_rf)
        THEN IsNone(result)
        ELSE LET ea == Excess(in_asset, in_rf)
                 em == Excess(in_market, in_rf)
                 b == beta(ea, em)
             IN  /\ IsNone(b) <=> (Len(in_asset) < 2 \/ IsConstant(em))
                 /\ IsNone(b) => IsNone(result)
                 /\ IsSome(b) =>
                       result = Some(RSub(PopMean(ea), RMul(Unwrap(b), PopMean(em))))

C5_Witness ==
    /\ call = "alpha"
    /\ Len(in_asset) = 3
    /\ Len(in_market) = 3
    /\ Len(in_rf) = 3
    /\ ~IsConstant(in_rf)
    /\ IsSome(result)
    /\ Unwrap(result) # Zero

\* the number of TRUE entries of a sequence of booleans
CountTrue(bs) == Cardinality({i \in 1..Len(bs) : bs[i]})

\* C6: with a daily standard deviation of exactly 0, monte_carlo_sharpe
\* returns the empty sequence whatever n_sims, avr and rf are, and runs no
\* trial.
C6_ZeroStdDev ==
    std_dev = Zero =>
        /\ trials = 0
        /\ sim_sharpe_r = <<>>
        /\ vol_hist = <<>>
        /\ mc_pc \in {"idle", "call", "done"}

C6_Witness ==
    /\ mc_pc = "done"
    /\ std_dev = Zero
    /\ n_sims = 2
    /\ avr # Zero
    /\ rf # Zero
    /\ sim_sharpe_r = <<>>

\* C7 as claimed: with a nonzero daily standard deviation,
\* monte_carlo_sharpe returns exactly n_sims Sharpe ratios.
C7_ExactlyNSims ==
    (mc_pc = "done" /\ std_dev # Zero) => Len(sim_sharpe_r) = n_sims

\* C7 as amended: with a nonzero daily standard deviation,
\* monte_carlo_sharpe runs n_sims trials and returns at most n_sims Sharpe
\* ratios, one per trial whose path has an annualized volatility > 0; it
\* returns exactly n_sims when every trial has.
C7_AtMostNSims ==
    (mc_pc = "done" /\ std_dev # Zero) =>
        /\ trials = n_sims
        /\ Len(vol_hist) = n_sims
        /\ Len(sim_sharpe_r) <= n_sims
        /\ Len(sim_sharpe_r) = CountTrue(vol_hist)
        /\ (\A i \in 1..n_sims : vol_hist[i]) => Len(sim_sharpe_r) = n_sims

C7_Witness ==
    /\ mc_pc = "done"
    /\ std_dev # Zero
    /\ n_sims = 2
    /\ Len(sim_sharpe_r) = 1

\* C8: each trial appends at most one value to the output, at its end: the
\* value v with v * annualized volatility = annualized path mean - rf when
\* that volatility is > 0, and nothing when it is 0; after any number of
\* trials the output length is the number of trials with positive
\* volatility and at most n_sims.
C8_TrialAppends ==
    [][/\ trials' # trials =>
            /\ trials' = trials + 1
            /\ IsSome(sim_stats')
            /\ LET st == Unwrap(sim_stats')
                   vol2 == RMul(SurdSq(st[2]), FromInt(TRADING_DAYS_PER_YEAR))
               IN  IF RPos(vol2)
                   THEN /\ Len(sim_sharpe_r') = Len(sim_sharpe_r) + 1
                        /\ SubSeq(sim_sharpe_r', 1, Len(sim_sharpe_r)) = sim_sharpe_r
                        /\ LET v == sim_sharpe_r'[Len(sim_sharpe_r')]
                           IN  /\ SurdMul(v, AnnualVol(st))
                                    = <<RSub(AnnualRet(st), rf), 1>>
                               /\ RMul(SurdSq(v), vol2)
                                    = Powi2(RSub(AnnualRet(st), rf))
                   ELSE sim_sharpe_r' = sim_sharpe_r
       /\ trials' = trials => sim_sharpe_r' = sim_sharpe_r \/ mc_pc = "call"
       /\ Len(sim_sharpe_r') = CountTrue(vol_hist')
       /\ Len(vol_hist') = trials'
       /\ Len(sim_sharpe_r') <= trials'
       /\ trials' <= n_sims
      ]_vars

C8_Witness ==
    /\ mc_pc = "loop"
    /\ trials = 2
    /\ vol_hist = <<FALSE, TRUE>>
    /\ Len(sim_sharpe_r) = 1
    /\ sim_sharpe_r[1][1] # Zero

\* the risk-free series load_risk_free_series returned to main, when one did
RfSeriesLoaded ==
    /\ pc \notin {"idle", "start"}
    /\ IsOk(args.file)
    /\ IsOk(args.benchmark)
    /\ IsSome(args.risk_free_file)
    /\ IsOk(Unwrap(args.risk_free_file))
RfSeries == OkVal(Unwrap(args.risk_free_file))

\* main has aligned the risk-free series: it is at or past line 60
Aligned ==
    \/ pc \in {"aligned", "stats", "sharpe", "beta"}
    \/ pc = "returned" /\ main_result = "Ok"

\* C9: a non-empty risk-free series s is aligned to the length t of the
\* returns: the result has length t, its entries below min(len(s), t) are
\* those of s, in order, and the entries from len(s) on are the last
\* element of s.
C9_Aligned ==
    (RfSeriesLoaded /\ RfSeries # <<>> /\ pc # "loaded") =>
        LET s == RfSeries
            t == Len(returns)
        IN  /\ Aligned
            /\ Len(rf_daily) = t
            /\ \A i \in 1..t :
                  rf_daily[i] = IF i <= Len(s) THEN s[i] ELSE s[Len(s)]

C9_Witness ==
    /\ RfSeriesLoaded
    /\ pc = "aligned"
    /\ Len(RfSeries) = 2
    /\ RfSeries[1] # RfSeries[2]
    /\ Len(returns) = 3
    /\ rf_daily = <<RfSeries[1], RfSeries[2], RfSeries[2]>>

\* C10: with an empty risk-free series and a positive target length the
\* alignment ends in a named error returned by main, not in a crash.
C10_EmptySeriesNamedError ==
    (RfSeriesLoaded /\ RfSeries = <<>> /\ Len(returns) > 0 /\ pc # "loaded") =>
        /\ pc = "returned"
        /\ main_result \notin {"none", "Ok"}

\* whether a record has a value under the requested maturity column
HasValue(rec) ==
    /\ ColumnOf(header, maturity) # 0
    /\ ColumnOf(header, maturity) <= Len(rec)
    /\ rec[ColumnOf(header, maturity)][1] = "f64"

\* whether the date cell of a record matches one of the two formats
HasValidDate(rec) ==
    /\ ColumnOf(header, "date") # 0
    /\ ColumnOf(header, "date") <= Len(rec)
    /\ rec[ColumnOf(header, "date")][1] \in {"%Y-%m-%d", "%m/%d/%Y"}

ParsesInFull(rec) ==
    /\ Len(rec) = Len(header)
    /\ \A name \in {"date", "open", "high", "low", "close", "volume"} :
          ColumnOf(header, name) # 0
    /\ rec[ColumnOf(header, "date")][1] \in {"%Y-%m-%d", "%m/%d/%Y"}
    /\ \A name \in {"open", "high", "low", "close", "volume"} :
          rec[ColumnOf(header, name)][1] = "f64"

\* C12: load_csv_from_reader returns nothing before its end, and ends in
\* one of two outcomes: when every data record parses in full, Ok with one
\* candle per record, in record order, holding the date and the numbers of
\* the record (no candle for an input with a header only or with no
\* bytes); otherwise Err, returned at the first record that does not parse
\* in full, and no candle.
C12_CsvOutcome ==
    /\ ld_pc = "csv_loop" => load_result = None
    /\ ld_pc = "csv_done" =>
          IF \A i \in 1..Len(rows) : ParsesInFull(rows[i])
          THEN /\ load_result = Some(Ok(candles))
               /\ Len(candles) = Len(rows)
               /\ \A i \in 1..Len(rows) :
                     /\ candles[i].date = rows[i][ColumnOf(header, "date")][2]
                     /\ candles[i].open = rows[i][ColumnOf(header, "open")][2]
                     /\ candles[i].high = rows[i][ColumnOf(header, "high")][2]
                     /\ candles[i].low = rows[i][ColumnOf(header, "low")][2]
                     /\ candles[i].close = rows[i][ColumnOf(header, "close")][2]
                     /\ candles[i].volume = rows[i][ColumnOf(header, "volume")][2]
          ELSE /\ load_result = Some(Err)
               /\ candles = <<>>
               /\ ~ParsesInFull(rows[row_idx])
               /\ \A i \in 1..(row_idx - 1) : ParsesInFull(rows[i])

C12_Witness ==
    /\ ld_pc = "csv_done"
    /\ Len(rows) = 3
    /\ \A i \in 1..3 : ParsesInFull(rows[i])
    /\ rows[1][1][1] = "%Y-%m-%d"
    /\ rows[2][1][1] = "%m/%d/%Y"
    /\ load_result = Some(Ok(candles))
    /\ candles[1].close # candles[3].close
    /\ candles[1].open # candles[1].close

\* C12, the outcome Err: two records parse and the third has a date in
\* neither format
C12_WitnessErr ==
    /\ ld_pc = "csv_done"
    /\ Len(rows) = 3
    /\ ParsesInFull(rows[1])
    /\ ParsesInFull(rows[2])
    /\ rows[3][1][1] = "text"
    /\ load_result = Some(Err)

\* whether main has printed a line with this label on the standard output
Printed(label) == \E i \in 1..Len(stdout) : stdout[i][1] = label

\* whether main has printed this diagnostic on the standard error
Diagnosed(msg) == \E i \in 1..Len(stderr) : stderr[i] = msg

\* C13: when the returns have length >= 2 and standard deviation exactly
\* 0, monte_carlo_sharpe returns no value and the average Sharpe ratio is
\* absent: it is not computed as a sum divided by a count of 0 and no line
\* reports it.
C13_AverageAbsent ==
    (pc \in {"sharpe", "beta", "returned"} /\ Len(returns) >= 2
        /\ IsSome(stats) /\ Unwrap(stats)[2] = <<Zero, 1>>) =>
        /\ sharpe_sims = <<>>
        /\ avg_sharpe # Some(NaN)
        /\ ~Printed("Monte Carlo Avg Sharpe")

\* the number of conditions of a sequence of conditions that hold
RECURSIVE CountAbsent(_)
CountAbsent(flags) ==
    IF flags = <<>> THEN 0
    ELSE (IF flags[1] THEN 1 ELSE 0) + CountAbsent(Tail(flags))

\* C14: when main ends after loading its files, each statistic has been
\* handled by itself: mean and volatility, beta and alpha are printed when
\* calc_stats, beta and alpha return a value on the aligned series and
\* have their diagnostic when they return None; the average Sharpe ratio
\* is printed when monte_carlo_sharpe returned values and not when it
\* returned none; there are as many diagnostics as absent statistics.
C14_EachStatisticHandled ==
    (pc = "returned" /\ main_result = "Ok") =>
        LET st == calc_stats(returns)
            b == beta(returns, bench_returns)
            a == alpha(returns, bench_returns, rf_daily)
            no_sharpe == IsSome(avg_sharpe) /\ sharpe_sims = <<>>
        IN  /\ IsSome(st) =>
                  Printed("Avg Daily Return") /\ Printed("Daily Volatility")
            /\ IsNone(st) =>
                  Diagnosed("Not enough return data to calculate metrics")
            /\ sharpe_sims # <<>> => Printed("Monte Carlo Avg Sharpe")
            /\ no_sharpe => ~Printed("Monte Carlo Avg Sharpe")
            /\ IsSome(b) => Printed("Beta vs Benchmark")
            /\ IsNone(b) => Diagnosed("Could not calculate beta (check lengths)")
            /\ IsSome(a) => Printed("Alpha vs Benchmark")
            /\ IsNone(a) => Diagnosed("Could not calculate alpha (check lengths)")
            /\ Len(stderr) >= CountAbsent(<<IsNone(st), no_sharpe, IsNone(b), IsNone(a)>>)

\* C15: once aligned, rf_daily is as long as returns; when calc_stats has
\* returned a value it has at least 2 elements and rf_daily[0] is read in
\* bounds (a panic of main is never one of that read); when alpha is
\* called, returns, bench_returns and rf_daily have one length, and alpha
\* is None only if the excess benchmark returns have zero variance.
C15_RiskFreeLength ==
    /\ Aligned => Len(rf_daily) = Len(returns)
    /\ IsSome(stats) => Len(rf_daily) >= 2
    /\ pc = "panicked" => IsNone(stats)
    /\ (pc = "beta" \/ Printed("Beta vs Benchmark")) =>
          /\ Len(bench_returns) = Len(returns)
          /\ Len(rf_daily) = Len(returns)
          /\ IsNone(alpha(returns, bench_returns, rf_daily)) =>
                Variance(ZipSub(bench_returns, rf_daily)) = Zero

C15_Witness ==
    /\ pc = "returned"
    /\ Printed("Monte Carlo Avg Sharpe")
    /\ Printed("Beta vs Benchmark")
    /\ Diagnosed("Could not calculate alpha (check lengths)")
    /\ Len(rf_daily) = 2
    /\ rf_daily[1] # rf_daily[2]
    /\ Variance(bench_returns) # Zero

=============================================================================
